---- MODULE Spec2Model ----
(***************************************************************************)
(* rainmachine/rainmachine.py: the command-line front end of the          *)
(* rainmachine backup/restore utility, a cement 2.x application.           *)
(*                                                                         *)
(* The module models one process from the `with RainMachineApp() as app`  *)
(* statement (line 155) to the end of the process.  The calls the script  *)
(* makes into cement and the standard library are modelled by what the    *)
(* called code does (cement 2.x CementApp.setup/run/run_forever/reload/   *)
(* close/__enter__/__exit__, argparse's version action and usage error,   *)
(* configparser's NoSectionError/NoOptionError); each is mapped to the    *)
(* line of the script that makes the call or sets the option.             *)
(*                                                                         *)
(* Two processes are stepped side by side: `app`, started with the given  *)
(* command line, and `base`, started with the same command line without   *)
(* -b/--backup, -r/--restore and -f/--file, and receiving the same        *)
(* lookups, signals and outcomes.                                          *)
(***************************************************************************)
EXTENDS Integers, Sequences, FiniteSets, TLC

VARIABLES
    conffile,   \* the configuration file on disk: setting -> value or None
    app,        \* the process under study
    base        \* the same invocation without --backup/--restore/--file

vars == <<conffile, app, base>>

\* ------------------------------------------------------------------ bounds
\* lookups made through RainMachineConfigHandler.get in one process
MaxGets == 1
\* reloads performed by run_forever in one process
MaxReloads == 1

\* --------------------------------------------------------------- constants
None == "None"
\* an optional exit code or exception that is not there, and one that is
Nothing == <<>>
Code(n) == <<n>>
FileValue == "file-value"
CliValue == "cli-value"

\* label = 'rainmachine' (line 136): the base section of the configuration
BaseSection == "rainmachine"
\* a section no configuration of the tool has
NoSuchSection == "nosuch"

\* dest= of the three connection settings (lines 107-112)
Settings == {"host", "user", "pass"}
\* dest= of every option that stores a value (lines 107-118)
Dests == Settings \cup {"backup", "restore", "file"}
\* keys of the base section: the settings plus the default 'tbd' (line 84)
ConfigKeys == Settings \cup {"tbd"}

\* defaults = init_defaults('rainmachine', 'rainmachine');
\* defaults['rainmachine']['tbd'] = False   (lines 83-84)
defaults == [k \in ConfigKeys |-> IF k = "tbd" THEN "False" ELSE None]

\* BANNER (lines 36-39): the text of the version action
BANNER == "rainmachine v%s"

\* the (section, key) pairs looked up
Lookups == {<<BaseSection, "host">>, <<BaseSection, "tbd">>, <<NoSuchSection, "host">>}

\* exceptions, as <<type, exit code carried>>
NotImplementedError == <<"NotImplementedError", 1>>
CaughtSignal == <<"CaughtSignal", 1>>
KeyboardInterrupt == <<"KeyboardInterrupt", 1>>
SystemExit(code) == <<"SystemExit", code>>

\* the command lines: each value option present (its value) or absent (None),
\* each flag given or not; `invalid`: an unrecognised option is present
ArgvSet ==
    [host : {None, CliValue}, user : {None, CliValue}, pass : {None, CliValue},
     backup : BOOLEAN, restore : BOOLEAN, file : {None, CliValue},
     version : BOOLEAN, invalid : BOOLEAN]

\* the same command line with the three backup/restore options left out
WithoutBackupOptions(argv) ==
    [argv EXCEPT !.backup = FALSE, !.restore = FALSE, !.file = None]

\* ---------------------------------------------------------------- logging
LogEntry(level, msg, arg) == [level |-> level, msg |-> msg, arg |-> arg]

\* --------------------------------------------------------------- the state
\* RainMachineApp() (line 155): the object before setup() has run
NewApp(argv) ==
    [ pc        |-> "enter",     \* enter, setup, run, cmd, sleep, exited
      forever   |-> FALSE,       \* inside app.run_forever() (line 159)
      argv      |-> argv,
      config    |-> [k \in ConfigKeys |-> None],
      parsed    |-> FALSE,       \* arguments merged since the last (re)load
      log       |-> <<>>,        \* calls made to app.log
      stdout    |-> <<>>,
      exit_code |-> 0,           \* app.exit_code
      closed    |-> 0,           \* executions of app.close()
      status    |-> Nothing,     \* Code(n) once the process has ended
      lastGet   |-> "unset",     \* what the last get() returned to its caller
      gets      |-> 0,
      missing   |-> 0,           \* lookups of an absent (section, key)
      loads     |-> 0,           \* configuration file loads
      runs      |-> 0,           \* executions of app.run()
      reloads   |-> 0 ]

Init ==
    /\ conffile \in [Settings -> {None, FileValue}]
    /\ \E argv \in ArgvSet :
        /\ app = NewApp(argv)
        /\ base = NewApp(WithoutBackupOptions(argv))

\* ------------------------------------------------------------ operations
\* RainMachineApp.Meta (lines 135-146) sets arguments_override_config and
\* leaves exit_on_close at CementApp's default
arguments_override_config == TRUE
exit_on_close == FALSE

\* app.close(code): records the exit code; exits the interpreter only under
\* exit_on_close (the caller then raises SystemExit(exit_code))
Close(a, code) ==
    [a EXCEPT !.closed = @ + 1,
              !.exit_code = IF code = Nothing THEN @ ELSE code[1]]

\* CementApp.__exit__ at the end of the with-block (line 155): the
\* application is closed only when no exception is leaving the block
WithExit(a, exc) ==
    IF exc = Nothing THEN Close(a, Nothing) ELSE a

\* the script ran off its last line: the interpreter exits with status 0,
\* or close() has called sys.exit(app.exit_code)
EndOfScript(a) ==
    [a EXCEPT !.pc = "exited",
              !.status = Code(IF exit_on_close THEN a.exit_code ELSE 0)]

\* An exception raised at the process's current position.
\*  - inside run_forever's try (its self.run()), an Exception subclass is
\*    logged as fatal and the loop goes on to its sleep;
\*  - elsewhere inside run_forever, the three types of line 160 are
\*    swallowed, the with-block ends normally and the script ends;
\*  - before run_forever (lines 155-156) nothing catches it: __exit__ sees
\*    the exception, does not close, and the interpreter exits with the
\*    SystemExit's code or with 1.
Raise(a, exc) ==
    IF a.forever /\ a.pc \in {"run", "cmd"}
                 /\ exc[1] \in {"CaughtSignal", "NotImplementedError"}
    THEN [a EXCEPT !.log = Append(@, LogEntry("fatal", "Caught Exception", <<exc[1]>>)),
                   !.pc = "sleep"]
    ELSE IF a.forever
         THEN EndOfScript(WithExit(a, Nothing))
         ELSE [WithExit(a, exc) EXCEPT
                   !.pc = "exited",
                   !.status = Code(IF exc[1] = "SystemExit" THEN exc[2] ELSE 1)]

\* ConfigParserConfigHandler.get (line 94): the stored value, or the
\* configparser.Error of the missing section or option
HasOption(a, section, key) ==
    section = BaseSection /\ a.config[key] # None

ConfigError(section, key) ==
    IF section # BaseSection
    THEN <<"NoSectionError", section>>
    ELSE <<"NoOptionError", key, section>>

\* RainMachineConfigHandler.get (lines 92-97)
Get(a, section, key) ==
    IF HasOption(a, section, key)
    THEN [a EXCEPT !.lastGet = a.config[key], !.gets = @ + 1]
    ELSE LET logged == [a EXCEPT
                 !.log = Append(@, LogEntry("fatal", "Missing configuration setting",
                                            ConfigError(section, key))),
                 !.gets = @ + 1,
                 !.missing = @ + 1]
             closed == Close(logged, Code(1))
         IN  IF exit_on_close
             THEN Raise(closed, SystemExit(closed.exit_code))
             ELSE [closed EXCEPT !.lastGet = None]

\* super(RainMachineApp, self).setup() (line 150): the framework's core
\* setup; the configuration is the defaults overlaid with the file
CoreSetup(a, file) ==
    [a EXCEPT !.config = [k \in ConfigKeys |->
                             IF k \in Settings /\ file[k] # None
                             THEN file[k] ELSE defaults[k]],
              !.loads = @ + 1,
              !.parsed = FALSE,
              !.pc = "setup"]

\* mutant: setup() without its debug line
SetupLogSilent(a) ==
    [a EXCEPT !.pc = "run"]

\* self.log.debug('running setup()') (line 152); setup() returns
SetupLog(a) ==
    [a EXCEPT !.log = Append(@, LogEntry("debug", "running setup()", <<>>)),
              !.pc = "run"]

\* mutant: the file's value is kept although the command line gives one
OverrideConfigKeepsFile(config, argv) ==
    config

\* mutant: -f/--file declared with dest='host'
OverrideConfigFileIsHost(config, argv) ==
    [k \in ConfigKeys |->
        IF k = "host" /\ config[k] # None /\ argv.file # None THEN argv.file
        ELSE IF k \in Dests /\ config[k] # None /\ argv[k] # None
        THEN argv[k] ELSE config[k]]

\* arguments_override_config (line 144): a parsed value that is not None
\* replaces the value of the key of the same name, if the base section
\* has that key
OverrideConfig(config, argv) ==
    [k \in ConfigKeys |->
        IF arguments_override_config /\ k \in Dests
           /\ config[k] # None /\ argv[k] # None
        THEN argv[k] ELSE config[k]]

\* mutant: -v/--version declared as a flag that is stored, not as the
\* version action
ParseArgsVersionIsFlag(a) ==
    LET started == [a EXCEPT !.runs = @ + 1]
    IN  IF a.argv.invalid
        THEN Raise(started, SystemExit(2))
        ELSE [started EXCEPT !.config = OverrideConfig(@, a.argv),
                             !.parsed = TRUE,
                             !.pc = "cmd"]

\* app.run() up to the dispatch of the command (lines 156, 159): the
\* arguments of lines 106-120 are parsed; the version action prints BANNER
\* and exits 0, an unrecognised option exits 2
ParseArgs(a) ==
    LET started == [a EXCEPT !.runs = @ + 1]
    IN  IF a.argv.version
        THEN Raise([started EXCEPT !.stdout = Append(@, BANNER)], SystemExit(0))
        ELSE IF a.argv.invalid
        THEN Raise(started, SystemExit(2))
        ELSE [started EXCEPT !.config = OverrideConfig(@, a.argv),
                             !.parsed = TRUE,
                             !.pc = "cmd"]

\* mutant: run_forever as a plain wait that does not run the application
DispatchThenIdle(a, raises) ==
    IF raises THEN Raise(a, NotImplementedError)
    ELSE [a EXCEPT !.forever = TRUE, !.pc = "sleep"]

\* the rest of app.run(): the base controller (lines 101-120) exposes no
\* command of its own, so the command run is the default command it
\* inherits; the script does not determine its outcome: it returns, or it
\* raises (CementBaseController.default raises NotImplementedError).
\* After the first run() returns, line 159 enters run_forever, whose loop
\* starts with run().
Dispatch(a, raises) ==
    IF raises THEN Raise(a, NotImplementedError)
    ELSE IF a.forever THEN [a EXCEPT !.pc = "sleep"]
    ELSE [a EXCEPT !.forever = TRUE, !.pc = "run"]

\* run_forever (line 159) after its run(): time.sleep(interval) ends and
\* reload() sets the application up again
Reload(a, file) ==
    CoreSetup([a EXCEPT !.reloads = @ + 1], file)

\* ---------------------------------------------------------------- actions
Running(a) == a.pc # "exited"

Setup ==
    /\ app.pc = "enter"
    /\ app' = CoreSetup(app, conffile)
    /\ base' = CoreSetup(base, conffile)
    /\ UNCHANGED conffile

SetupDone ==
    /\ app.pc = "setup"
    /\ app' = SetupLog(app)
    /\ base' = SetupLog(base)
    /\ UNCHANGED conffile

Run ==
    /\ app.pc = "run"
    /\ app' = ParseArgs(app)
    /\ base' = ParseArgs(base)
    /\ UNCHANGED conffile

CommandReturns ==
    /\ app.pc = "cmd"
    /\ app' = Dispatch(app, FALSE)
    /\ base' = Dispatch(base, FALSE)
    /\ UNCHANGED conffile

CommandRaises ==
    /\ app.pc = "cmd"
    /\ app' = Dispatch(app, TRUE)
    /\ base' = Dispatch(base, TRUE)
    /\ UNCHANGED conffile

RunForeverReload ==
    /\ app.pc = "sleep"
    /\ app.reloads < MaxReloads
    /\ app' = Reload(app, conffile)
    /\ base' = Reload(base, conffile)
    /\ UNCHANGED conffile

\* a lookup made by a caller of app.config.get: after the core setup of
\* line 155, or from the application logic inside run()
Lookup ==
    /\ \/ app.pc = "setup" /\ ~app.forever
       \/ app.pc = "cmd"
    /\ app.gets < MaxGets
    /\ \E l \in Lookups :
        /\ app' = Get(app, l[1], l[2])
        /\ base' = Get(base, l[1], l[2])
    /\ UNCHANGED conffile

\* SIGTERM or SIGINT, which cement's handler turns into CaughtSignal at the
\* main thread's current position: inside run(), or in run_forever's sleep
Signal ==
    /\ app.pc \in {"cmd", "sleep"}
    /\ app' = Raise(app, CaughtSignal)
    /\ base' = Raise(base, CaughtSignal)
    /\ UNCHANGED conffile

\* KeyboardInterrupt or SystemExit raised while run_forever is running
Interrupt ==
    /\ app.forever
    /\ app.pc \in {"cmd", "sleep"}
    /\ \E exc \in {KeyboardInterrupt, SystemExit(0), SystemExit(1)} :
        /\ app' = Raise(app, exc)
        /\ base' = Raise(base, exc)
    /\ UNCHANGED conffile

Next ==
    \/ Setup
    \/ SetupDone
    \/ Run
    \/ CommandReturns
    \/ CommandRaises
    \/ RunForeverReload
    \/ Lookup
    \/ Signal
    \/ Interrupt

Spec == Init /\ [][Next]_vars

\* The nominal behaviours, a part of those of Spec: a valid command line
\* without --version, a command that returns, and signals that arrive
\* only while run_forever sleeps.
NominalInit ==
    /\ Init
    /\ ~app.argv.version
    /\ ~app.argv.invalid

SignalWhileAsleep ==
    /\ app.pc = "sleep"
    /\ Signal

NominalNext ==
    \/ Setup
    \/ SetupDone
    \/ Run
    \/ CommandReturns
    \/ RunForeverReload
    \/ Lookup
    \/ SignalWhileAsleep
    \/ Interrupt

Nominal == NominalInit /\ [][NominalNext]_vars

\* ------------------------------------------------------------ properties
Exited(a) == a.pc = "exited"

\* the number of entries of a log with the given level and message
Count(log, level, msg) ==
    Cardinality({i \in 1..Len(log) : log[i].level = level /\ log[i].msg = msg})

\* what a caller resolving `key` gets handed by app.config.get
Resolved(a, key) == Get(a, BaseSection, key).lastGet

\* what an invocation lets the outside see
Observed(a) ==
    [log |-> a.log, stdout |-> a.stdout, status |-> a.status,
     settings |-> [k \in Settings |-> a.config[k]]]

C2_GetNeverReturnsNone ==
    app.lastGet = None => Exited(app)

\* C3: after the arguments are parsed, a setting that the configuration
\* file holds resolves to the command-line value if the command line gives
\* one, and to the file's value otherwise.
C3_CommandLineOverridesFile ==
    app.parsed =>
        \A k \in Settings :
            conffile[k] # None =>
                Resolved(app, k) = IF app.argv[k] # None THEN app.argv[k]
                                   ELSE conffile[k]

C3_Witness ==
    /\ app.parsed
    /\ conffile["host"] # None /\ app.argv.host # None
    /\ conffile["user"] # None /\ app.argv.user = None
    /\ app.lastGet = CliValue

\* C4 as claimed: with --version the banner is printed and the process
\* exits 0 without any configuration file load or configuration lookup.
C4_VersionReadsNoConfig ==
    (app.argv.version /\ Exited(app)) =>
        /\ app.stdout = <<BANNER>>
        /\ app.status = Code(0)
        /\ app.loads = 0
        /\ app.gets = 0

\* C4 as amended: with --version the banner is printed and the process
\* exits 0 inside the first app.run(); setup() has loaded the configuration
\* file once by then, and no command-line value has been merged into it.
C4_VersionExitsAfterSetup ==
    (app.argv.version /\ Exited(app)) =>
        /\ app.stdout = <<BANNER>>
        /\ app.status = Code(0)
        /\ app.runs = 1
        /\ app.loads = 1
        /\ ~app.parsed
        /\ \A k \in Settings : app.config[k] = conffile[k]

C4_Witness ==
    /\ app.argv.version /\ Exited(app)
    /\ app.loads = 1
    /\ conffile["host"] # None /\ app.argv.host # None

C9_BackupOptionsAreNoOps ==
    Observed(app) = Observed(base)

C9_Witness ==
    /\ app.argv.backup /\ app.argv.restore /\ app.argv.file # None
    /\ base.argv # app.argv
    /\ app.argv.host # None /\ conffile["host"] # None
    /\ Exited(app)
    /\ app.missing = 1
    /\ app.reloads = 1

====
